---- MODULE Spec2Model ----
(***************************************************************************)
(* Model of the SkillForge MCP bridge: the periodic skill synchronisation  *)
(* (src/src/index.ts, syncSkills and main), the enrichment cache of the    *)
(* BlockchainSkillClient (src/unnamed/part_000) and the tool invocation    *)
(* handler bound at registration time.                                     *)
(*                                                                         *)
(* The event loop is modelled at the granularity of its macrotasks: one    *)
(* action is one callback (timer tick, completion of the registry read,    *)
(* completion of a metadata fetch) together with every promise             *)
(* continuation that runs before the next callback.                        *)
(*                                                                         *)
(* Specifications: Spec (the passes), SpecRepoint (the passes over a       *)
(* ledger whose metadata pointer changes, with the audit history),         *)
(* SpecList (one listSkills call), SpecFetch (one fetchIPFSMetadata call,  *)
(* gateway by gateway), SpecServe (the initial pass and the HTTP server),  *)
(* SpecInvoke (one invocation of a bound handler).                         *)
(***************************************************************************)
EXTENDS Integers, Sequences, FiniteSets, TLC

\* ---------------------------------------------------------------- bounds
MaxPasses == 3          \* calls of syncSkills (the initial one plus timer ticks)
MaxSkills == 2          \* records returned by one registry read
ListLen == 3            \* records of a read when one listSkills call is studied

SkillIds == {1, 2}
\* The metadata pointer the ledger holds for each skill: skill 1 was registered
\* with a pointer, skill 2 without one.
LedgerURI == [id \in SkillIds |-> IF id = 1 THEN "ipfs://QmA" ELSE ""]
Passes == 1..MaxPasses

\* ------------------------------------------------------ display names
\* A display name is a sequence of one-character strings.
Digits == <<"0", "1", "2", "3", "4", "5", "6", "7", "8", "9">>
NameSkill2 == <<"S", "k", "i", "l", "l", " ", " ", "2">>
NoName == <<>>

\* skillId.toString() for the single-digit identifiers of the model
CacheKey(skillId) == Digits[skillId + 1]

\* `Skill #${skillId}`
DefaultName(skillId) == <<"S", "k", "i", "l", "l", " ", "#", CacheKey(skillId)>>

DEFAULT_DESCRIPTION == "No description available"

\* String.prototype.toLowerCase on the characters the model uses
ToLowerCase(c) ==
    CASE c = "S" -> "s"
      [] c = "K" -> "k"
      [] OTHER -> c

IsWhitespace(c) == c = " "

AllowedChars ==
    {"a", "b", "c", "d", "e", "f", "g", "h", "i", "j", "k", "l", "m", "n",
     "o", "p", "q", "r", "s", "t", "u", "v", "w", "x", "y", "z",
     "0", "1", "2", "3", "4", "5", "6", "7", "8", "9", "-"}

RECURSIVE DropWhitespace(_)
DropWhitespace(s) ==
    IF s = <<>> THEN <<>>
    ELSE IF IsWhitespace(Head(s)) THEN DropWhitespace(Tail(s))
    ELSE s

\* .replace(/\s+/g, "-"): every maximal whitespace run becomes one hyphen
RECURSIVE ReplaceWhitespace(_)
ReplaceWhitespace(s) ==
    IF s = <<>> THEN <<>>
    ELSE IF IsWhitespace(Head(s))
         THEN <<"-">> \o ReplaceWhitespace(DropWhitespace(Tail(s)))
         ELSE <<Head(s)>> \o ReplaceWhitespace(Tail(s))

IsAllowed(c) == c \in AllowedChars

\* .replace(/[^a-z0-9-]/g, "")
StripDisallowed(s) == SelectSeq(s, IsAllowed)

toolName(name) ==
    StripDisallowed(ReplaceWhitespace([i \in DOMAIN name |-> ToLowerCase(name[i])]))

\* ------------------------------------------------------------ records
\* SkillRegistryData as decoded from getAllSkills
RawSkill ==
    {[skillId |-> id, metadataURI |-> LedgerURI[id], isActive |-> a] :
        id \in SkillIds, a \in BOOLEAN}

\* The values publicClient.readContract can resolve to
RegistryReads == UNION {[1..n -> RawSkill] : n \in 0..MaxSkills}

\* What fetchIPFSMetadata resolves to: a parsed document, or null (ok = FALSE)
NoTags == <<>>
NullMetadata == [ok |-> FALSE, name |-> NoName, description |-> "", tags |-> NoTags]
MetadataResults ==
    {NullMetadata,
     [ok |-> TRUE, name |-> NameSkill2, description |-> "", tags |-> <<"text">>]}

\* The SkillWithMetadata object enrichSkillWithMetadata constructs on a cache
\* miss. gen is a history field: the pass whose registry read returned raw; it
\* stands for the registry fields that are copied and not read again (creator,
\* pricePerUse, metadataURI, totalCalls), which carry the values of that read.
NewSkill(raw, gen) ==
    [skillId |-> raw.skillId, isActive |-> raw.isActive,
     name |-> DefaultName(raw.skillId), description |-> DEFAULT_DESCRIPTION,
     tags |-> NoTags, gen |-> gen]

\* if (metadata) { skill.name = metadata.name || skill.name; ...;
\*                  skill.tags = metadata.tags || []; }
OverlayMetadata(skill, metadata) ==
    IF metadata.ok
    THEN [skill EXCEPT
            !.name = IF metadata.name # NoName THEN metadata.name ELSE @,
            !.description = IF metadata.description # "" THEN metadata.description ELSE @,
            !.tags = metadata.tags]
    ELSE skill

EmptyMap == [k \in {} |-> TRUE]
MapSet(m, k, v) == [x \in DOMAIN m \cup {k} |-> IF x = k THEN v ELSE m[x]]

\* (a variant that rebuilds the cache around the entry stored last)
CacheSetReplace(cache, key, skill) == MapSet(EmptyMap, key, skill)

\* this.metadataCache.set(cacheKey, skill)
CacheSet(cache, key, skill) == MapSet(cache, key, skill)

\* ------------------------------------------------- fetchIPFSMetadata
\* const gateways = [pinata, ipfs.io, dweb.link]
GATEWAYS == <<"gateway.pinata.cloud", "ipfs.io", "dweb.link">>

\* The texts response.text() can resolve to
DocumentText == "{\"name\":\"Skill  2\",\"tags\":[\"text\"]}"
Bodies == {DocumentText, "null", "<html>Bad gateway</html>"}

\* JSON.parse(text): the value of a JSON text, or a SyntaxError. The JSON text
\* null parses, without an error, to the value null.
JSONParse(text) ==
    CASE text = DocumentText ->
             [threw |-> FALSE,
              value |-> [ok |-> TRUE, name |-> NameSkill2, description |-> "",
                         tags |-> <<"text">>]]
      [] text = "null" -> [threw |-> FALSE, value |-> NullMetadata]
      [] OTHER -> [threw |-> TRUE, value |-> NullMetadata]

\* (a variant whose handler of a failed attempt leaves the loop)
LeaveLoop(how) == "leave"

\* catch (err: any) { logger.debug(...) } inside the loop, and the fall through
\* after a JSON parse error or a non-ok status: the loop goes on to the next url
CatchAttempt(how) == "continue"

\* What a fetchIPFSMetadata call settles to
NotFetched == [kind |-> "none", value |-> NullMetadata]
Returns(value) == [kind |-> "returns", value |-> value]

\* ---------------------------------------------------------------- state
VARIABLES
    mainPc,           \* position of main(): "start", "initialSync", "serving", "exited"
    started,          \* number of syncSkills calls made so far
    pc,               \* per pass: "idle", "reading", "enriching", "done"
    slots,            \* per pass: the enrichSkillWithMetadata calls of its Promise.all
    metadataCache,    \* BlockchainSkillClient.metadataCache
    tools,            \* the tools of the McpServer: identifier -> bound handler
    registeredTools,  \* the Set of known identifiers in main()
    outcome,          \* per pass: how the promise of syncSkills settled
    lastLog,          \* history: how the pass that completed last went
    base,             \* history: cache keys present when the oldest pass of the
                      \* current run of overlapping passes was called
    overlap,          \* history: a pass of that run was called while another
                      \* was awaiting a metadata fetch
    lastRead,         \* history: cache keys of the records the registry read of
                      \* the pass called last returned
    audit,            \* whether the behaviour keeps the audit history below
    listed,           \* audit: the listSkills call that resolved last: its pass,
                      \* the enriched records in result order, what it returned
    issued,           \* audit: per pass, the indices of the records whose
                      \* enrichment called fetchIPFSMetadata
    discovered,       \* audit: the identifiers the pass that completed last
                      \* logged as "New skill discovered", in order
    preClear,         \* audit: the cache keys the last clearCache() removed
    sinceClear,       \* audit: the cache keys enrichSkillWithMetadata was called
                      \* for since the last clearCache()
    fpc,              \* position of a fetchIPFSMetadata call: "idle", "headers"
                      \* (await fetch), "body" (await response.text()), "returned"
    gateway,          \* index in gateways of the url of the current attempt
    abortTimer,       \* the setTimeout of the current attempt: "none", "armed",
                      \* "cleared", "fired"
    contacted,        \* history: the gateways a request was sent to, in order
    attempts,         \* history: how each finished attempt ended
    fetched,          \* what the call settled to
    apiUrl,           \* process.env.SKILLFORGE_API_URL
    handlerSkill,     \* the skill an invoked handler is closed over
    posted,           \* the request the last invocation sent to the backend
    backend,          \* history: how axios.post settled in the last invocation
    result,           \* what the last invocation of the handler settled to
    transport,        \* main(): let transport, "null" or the SSE transport
    served            \* history: the last request the HTTP server answered:
                      \* "none", "sse", "400", "tool"

syncVars ==
    <<mainPc, started, pc, slots, metadataCache, tools, registeredTools,
      outcome, lastLog, base, overlap, lastRead>>
auditVars == <<audit, listed, issued, discovered, preClear, sinceClear>>
fetchVars == <<fpc, gateway, abortTimer, contacted, attempts, fetched>>
invokeVars == <<apiUrl, handlerSkill, posted, backend, result, transport, served>>
vars == <<syncVars, auditVars, fetchVars, invokeVars>>

\* -------------------------------------------- BlockchainSkillClient
\* blockchainSkillClient.clearCache(), called at the top of every pass. The
\* client source defines no method of that name; its effect is taken from the
\* specification of the enrichment cache (4.2): clear() removes all entries
\* unconditionally.
clearCache(cache) == EmptyMap

\* (a variant that refreshes the active flag of the cached object)
Refreshed(cached, raw) == [cached EXCEPT !.isActive = raw.isActive]

\* if (this.metadataCache.has(cacheKey)) return this.metadataCache.get(cacheKey)!
\* The record passed in is not looked at.
Memoized(cached, raw) == cached

\* One call of enrichSkillWithMetadata up to its first await. The calls of
\* rawSkills.map(...) run one after the other, each seeing the cache writes of
\* the ones before it: a hit returns the memoized object, a miss with an empty
\* metadataURI stores its object at once, a miss with a pointer suspends at
\* fetchIPFSMetadata holding the object it has built.
RECURSIVE StartEnrich(_, _, _, _, _)
StartEnrich(rawSkills, i, cache, acc, gen) ==
    IF i > Len(rawSkills) THEN [cache |-> cache, slots |-> acc]
    ELSE LET raw == rawSkills[i]
             key == CacheKey(raw.skillId)
         IN IF key \in DOMAIN cache
            THEN StartEnrich(rawSkills, i + 1, cache,
                     Append(acc, [st |-> "resolved", skill |-> Memoized(cache[key], raw),
                                  raw |-> raw]),
                     gen)
            ELSE IF raw.metadataURI = ""
            THEN StartEnrich(rawSkills, i + 1, CacheSet(cache, key, NewSkill(raw, gen)),
                     Append(acc, [st |-> "resolved", skill |-> NewSkill(raw, gen), raw |-> raw]),
                     gen)
            ELSE StartEnrich(rawSkills, i + 1, cache,
                     Append(acc, [st |-> "pending", skill |-> NewSkill(raw, gen), raw |-> raw]),
                     gen)

IsPending(slot) == slot.st = "pending"
IsActiveSlot(slot) == slot.skill.isActive

AllResolved(ss) == \A i \in DOMAIN ss : ss[i].st = "resolved"

\* (a variant that returns every enriched record)
AllSkills(ss) == ss

\* skillsWithMetadata.filter((s) => s.isActive)
ActiveSkills(ss) == SelectSeq(ss, IsActiveSlot)

\* (a variant that answers a read failure with a placeholder record)
ListSkillsPlaceholder ==
    <<[st |-> "resolved",
       skill |-> NewSkill([skillId |-> 1, metadataURI |-> "", isActive |-> TRUE], 0),
       raw |-> [skillId |-> 1, metadataURI |-> "", isActive |-> TRUE]]>>

\* catch (error) { ...; return []; }
ListSkillsOnError == <<>>

\* The indices of the enrichSkillWithMetadata calls that are suspended at
\* fetchIPFSMetadata
PendingIndices(ss) == {i \in DOMAIN ss : IsPending(ss[i])}

\* Audit record of a listSkills call of pass p that resolved: enriched is
\* skillsWithMetadata (the result of Promise.all), view is the value returned.
Listed(p, enriched, view) == [pass |-> p, enriched |-> enriched, view |-> view]
NothingListed == Listed(0, <<>>, <<>>)

\* --------------------------------------------------------- syncSkills
\* The handler server.tool binds: closed over skill. rawActive is a history
\* field: the isActive flag of the record the registering pass read from the
\* registry for this entry.
Handler(slot, p) == [skill |-> slot.skill, rawActive |-> slot.raw.isActive]

\* (a variant that rebuilds the set from the identifier at hand)
AddKnownReset(known, name) == {name}

\* if (!registeredTools.has(toolName)) registeredTools.add(toolName)
AddKnown(known, name) == known \cup {name}

\* (a variant in which the server keeps the tool registered last only)
BindOnly(tls, name, handler) == MapSet(EmptyMap, name, handler)

\* server.tool(toolName, description, schema, handler) when it does not throw:
\* the handler is bound to the identifier; nothing else is touched.
BindTool(tls, name, handler) == MapSet(tls, name, handler)

\* for (const skill of currentSkills) { server.tool(...); registeredTools.add }
\* server.tool is a call into the protocol server: it either binds the handler
\* to the identifier, replacing an earlier binding, or throws. failAt is the
\* index of the entry at which it throws (0: at none); the throw leaves the
\* loop for the catch clause of syncSkills.
RECURSIVE RegisterLoop(_, _, _, _, _, _)
RegisterLoop(currentSkills, i, tls, known, p, failAt) ==
    IF i > Len(currentSkills)
    THEN [tools |-> tls, known |-> known, threw |-> FALSE, news |-> <<>>]
    ELSE IF i = failAt
    THEN [tools |-> tls, known |-> known, threw |-> TRUE, news |-> <<>>]
    ELSE LET name == toolName(currentSkills[i].skill.name)
             rest == RegisterLoop(currentSkills, i + 1,
                         BindTool(tls, name, Handler(currentSkills[i], p)),
                         AddKnown(known, name), p, failAt)
         IN [rest EXCEPT !.news = IF name \in known THEN @ ELSE <<name>> \o @]

\* (a variant in which the server listens while the initial pass runs)
ListeningFromStart(at) == at \in {"initialSync", "serving"}

\* main(): app.get, app.post and app.listen come after await syncSkills(), so
\* requests are answered once main has passed the initial call.
Listening(at) == at = "serving"

\* (a variant without the try/catch around the pass)
SyncSettlesUncaught(threw) == IF threw THEN "rejected" ELSE "resolved"

\* try { ... } catch (error) { logger.error(...) }: whatever is thrown inside
\* the pass, the promise of syncSkills resolves.
SyncSettles(threw) == "resolved"

\* main(): await syncSkills(); setInterval(syncSkills, SYNC_INTERVAL); a
\* rejection of the initial call reaches main().catch and process.exit(1), a
\* rejection of a timer call is an unhandled rejection.
MainAfter(p, settled, at) ==
    IF settled = "rejected" THEN "exited"
    ELSE IF p = 1 THEN "serving"
    ELSE at

\* ------------------------------------------------- invocation handler
\* What a catch clause can receive. type is the branch of the catch it takes
\* (instanceof Error, typeof 'string', anything else); bodyError is the value
\* of error.response?.data?.error; json is what JSON.stringify(error) does.
Absent == [kind |-> "absent", value |-> ""]
NotApplicable == [kind |-> "n/a", value |-> ""]
NoThrow ==
    [type |-> "none", message |-> "", isAxiosError |-> FALSE, code |-> "",
     bodyError |-> Absent, json |-> NotApplicable]

ThrownValues ==
    {\* AxiosError: nothing listens on the backend port
     [type |-> "Error", message |-> "connect ECONNREFUSED 127.0.0.1:3000",
      isAxiosError |-> TRUE, code |-> "ECONNREFUSED",
      bodyError |-> Absent, json |-> NotApplicable],
     \* AxiosError: status 402 with body {error: "Insufficient funds"}
     [type |-> "Error", message |-> "Request failed with status code 402",
      isAxiosError |-> TRUE, code |-> "ERR_BAD_REQUEST",
      bodyError |-> [kind |-> "string", value |-> "Insufficient funds"],
      json |-> NotApplicable],
     \* AxiosError: status 500 with body {error: ""}
     [type |-> "Error", message |-> "Request failed with status code 500",
      isAxiosError |-> TRUE, code |-> "ERR_BAD_RESPONSE",
      bodyError |-> [kind |-> "string", value |-> ""], json |-> NotApplicable],
     \* AxiosError: status 500 with body {error: {code: 7}}
     [type |-> "Error", message |-> "Request failed with status code 500",
      isAxiosError |-> TRUE, code |-> "ERR_BAD_RESPONSE",
      bodyError |-> [kind |-> "object", value |-> "[object Object]"],
      json |-> NotApplicable],
     \* AxiosError: status 404 with an HTML body
     [type |-> "Error", message |-> "Request failed with status code 404",
      isAxiosError |-> TRUE, code |-> "ERR_BAD_REQUEST",
      bodyError |-> Absent, json |-> NotApplicable],
     \* a TypeError raised inside the try block
     [type |-> "Error", message |-> "Cannot convert a BigInt value to a number",
      isAxiosError |-> FALSE, code |-> "",
      bodyError |-> Absent, json |-> NotApplicable],
     \* throw "timeout"
     [type |-> "string", message |-> "timeout", isAxiosError |-> FALSE, code |-> "",
      bodyError |-> Absent, json |-> NotApplicable],
     \* throw {status: 503}
     [type |-> "other", message |-> "", isAxiosError |-> FALSE, code |-> "",
      bodyError |-> Absent, json |-> [kind |-> "text", value |-> "{\"status\":503}"]],
     \* throw undefined: JSON.stringify returns undefined
     [type |-> "other", message |-> "", isAxiosError |-> FALSE, code |-> "",
      bodyError |-> Absent, json |-> [kind |-> "undefined", value |-> "undefined"]],
     \* a thrown object that refers to itself, or holds a BigInt: JSON.stringify
     \* throws a TypeError
     [type |-> "other", message |-> "", isAxiosError |-> FALSE, code |-> "",
      bodyError |-> Absent, json |-> [kind |-> "throws", value |-> ""]]}

\* JSON.stringify(response.data, null, 2) of the bodies the backend answers
ResponseData == {"{\n  \"output\": \"MONAD IS FAST\"\n}", "\"\""}

\* How axios.post settles
BackendOutcomes ==
    {[ok |-> TRUE, data |-> d, error |-> NoThrow] : d \in ResponseData}
    \cup {[ok |-> FALSE, data |-> "", error |-> e] : e \in ThrownValues}

Inputs == {"monad is fast"}
ApiUrls == {"", "http://localhost:3000", "https://api.skillforge.example"}
ACCOUNT_ADDRESS == "0xBuyer"

\* process.env.SKILLFORGE_API_URL || "http://localhost:3000"
Endpoint(url) == IF url # "" THEN url ELSE "http://localhost:3000"

\* process.env.SKILLFORGE_API_URL || 'localhost:3000'
UnreachableUrl(url) == IF url # "" THEN url ELSE "localhost:3000"

\* the truthiness test of (error as any).response?.data?.error
Truthy(bodyError) ==
    \/ bodyError.kind = "object"
    \/ bodyError.kind = "string" /\ bodyError.value # ""

\* The catch clause of the handler up to the return: the message it computes.
\* form "escapes" stands for JSON.stringify throwing out of the catch clause.
ErrorMessage(error, url) ==
    IF error.type = "Error"
    THEN IF error.isAxiosError /\ error.code = "ECONNREFUSED"
         THEN [form |-> "unreachable", arg |-> UnreachableUrl(url)]
         ELSE IF Truthy(error.bodyError)
         THEN [form |-> "plain", arg |-> error.bodyError.value]
         ELSE [form |-> "plain", arg |-> error.message]
    ELSE IF error.type = "string"
    THEN [form |-> "plain", arg |-> error.message]
    ELSE IF error.json.kind = "throws"
    THEN [form |-> "escapes", arg |-> ""]
    ELSE [form |-> "plain", arg |-> error.json.value]

Escapes ==
    [kind |-> "throws", isError |-> FALSE, head |-> "", name |-> NoName,
     message |-> [form |-> "", arg |-> ""]]

\* What the handler closed over skill settles to
HandlerResult(skill, url, settled) ==
    IF settled.ok
    THEN [kind |-> "result", isError |-> FALSE,
          head |-> "Skill executed successfully!", name |-> NoName,
          message |-> [form |-> "json", arg |-> settled.data]]
    ELSE IF ErrorMessage(settled.error, url).form = "escapes"
    THEN Escapes
    ELSE [kind |-> "result", isError |-> TRUE,
          head |-> "Error executing skill", name |-> skill.name,
          message |-> ErrorMessage(settled.error, url)]

\* axios.post(endpoint, {skillId: Number(skill.skillId), input, buyer})
Request(skill, url, input) ==
    [endpoint |-> Endpoint(url), path |-> "/api/agent", skillId |-> skill.skillId,
     input |-> input, buyer |-> ACCOUNT_ADDRESS]

NoRequest ==
    [endpoint |-> "", path |-> "", skillId |-> 0, input |-> "", buyer |-> ""]
NoResult ==
    [kind |-> "none", isError |-> FALSE, head |-> "", name |-> NoName,
     message |-> [form |-> "", arg |-> ""]]
NotCalled == [ok |-> TRUE, data |-> "", error |-> NoThrow]

\* The skills a pass can bind a handler to
BindableSkills ==
    {OverlayMetadata(NewSkill(raw, g), metadata) :
        raw \in {r \in RawSkill : r.isActive}, g \in Passes, metadata \in MetadataResults}

SyncInit ==
    /\ mainPc = "start"
    /\ started = 0
    /\ pc = [p \in Passes |-> "idle"]
    /\ slots = [p \in Passes |-> <<>>]
    /\ metadataCache = EmptyMap
    /\ tools = EmptyMap
    /\ registeredTools = {}
    /\ outcome = [p \in Passes |-> "none"]
    /\ lastLog = "none"
    /\ base = {}
    /\ overlap = FALSE
    /\ lastRead = {}
    /\ listed = NothingListed
    /\ issued = [p \in Passes |-> {}]
    /\ discovered = <<>>
    /\ preClear = {}
    /\ sinceClear = {}
    /\ fpc = "idle"
    /\ gateway = 0
    /\ abortTimer = "none"
    /\ contacted = <<>>
    /\ attempts = <<>>
    /\ fetched = NotFetched

Init ==
    /\ SyncInit
    /\ audit = FALSE
    /\ apiUrl = ""
    /\ handlerSkill = NewSkill([skillId |-> 1, metadataURI |-> "", isActive |-> TRUE], 0)
    /\ posted = NoRequest
    /\ backend = NotCalled
    /\ result = NoResult
    /\ transport = "null"
    /\ served = "none"

\* The passes that have been called and have not run to their end
InFlight == {p \in Passes : pc[p] \in {"reading", "enriching"}}

\* The call of syncSkills up to its first await: clearCache(), then the
\* registry read is issued.
BeginSync(p) ==
    /\ pc[p] = "idle"
    /\ started' = p
    /\ pc' = [pc EXCEPT ![p] = "reading"]
    /\ metadataCache' = clearCache(metadataCache)
    /\ base' = IF InFlight = {} THEN DOMAIN metadataCache ELSE base
    /\ overlap' = IF InFlight = {} THEN FALSE
                  ELSE overlap \/ \E q \in Passes : pc[q] = "enriching"
    /\ lastRead' = {}
    /\ preClear' = IF audit THEN DOMAIN metadataCache ELSE preClear
    /\ sinceClear' = IF audit THEN {} ELSE sinceClear
    /\ UNCHANGED <<slots, tools, registeredTools, outcome, lastLog, audit, listed,
                   issued, discovered, fetchVars, invokeVars>>

\* main(): await syncSkills()
InitialSync ==
    /\ mainPc = "start"
    /\ mainPc' = "initialSync"
    /\ BeginSync(1)

\* The interval timer fires: syncSkills() is called, whatever earlier calls
\* are doing.
Tick ==
    /\ mainPc = "serving"
    /\ started < MaxPasses
    /\ UNCHANGED mainPc
    /\ BeginSync(started + 1)

\* The rest of the pass once listSkills has resolved to currentSkills: the
\* registration loop, the settling of the promise and what main does with it.
Complete(p, currentSkills, failAt, log) ==
    LET r == RegisterLoop(currentSkills, 1, tools, registeredTools, p, failAt)
    IN /\ tools' = r.tools
       /\ registeredTools' = r.known
       /\ pc' = [pc EXCEPT ![p] = "done"]
       /\ slots' = [slots EXCEPT ![p] = <<>>]
       /\ outcome' = [outcome EXCEPT ![p] = SyncSettles(r.threw)]
       /\ lastLog' = IF r.threw THEN "registerThrew" ELSE log
       /\ discovered' = IF audit THEN r.news ELSE discovered
       /\ mainPc' = MainAfter(p, SyncSettles(r.threw), mainPc)

\* readContract rejects: listSkills returns [] and the loop has nothing to do.
ReadFail(p) ==
    /\ mainPc # "exited"
    /\ pc[p] = "reading"
    /\ Complete(p, ListSkillsOnError, 0, "readFailed")
    /\ listed' = IF audit THEN Listed(p, <<>>, ListSkillsOnError) ELSE listed
    /\ UNCHANGED <<started, metadataCache, base, overlap, lastRead, audit, issued,
                   preClear, sinceClear, fetchVars, invokeVars>>

\* readContract resolves to rawSkills: every enrichSkillWithMetadata call is
\* started; if none of them has to fetch, Promise.all resolves and the pass
\* runs to its end without yielding to the event loop.
ReadOk(p, rawSkills) ==
    /\ mainPc # "exited"
    /\ pc[p] = "reading"
    /\ LET e == StartEnrich(rawSkills, 1, metadataCache, <<>>, p)
       IN /\ metadataCache' = e.cache
          /\ lastRead' = IF p = started
                         THEN {CacheKey(rawSkills[i].skillId) : i \in DOMAIN rawSkills}
                         ELSE lastRead
          /\ issued' = IF audit THEN [issued EXCEPT ![p] = PendingIndices(e.slots)]
                        ELSE issued
          /\ sinceClear' = IF audit
                            THEN sinceClear \cup
                                 {CacheKey(rawSkills[i].skillId) : i \in DOMAIN rawSkills}
                            ELSE sinceClear
          /\ IF AllResolved(e.slots)
             THEN /\ \E failAt \in 0..Len(ActiveSkills(e.slots)) :
                         Complete(p, ActiveSkills(e.slots), failAt, "ok")
                  /\ listed' = IF audit THEN Listed(p, e.slots, ActiveSkills(e.slots))
                                ELSE listed
             ELSE /\ pc' = [pc EXCEPT ![p] = "enriching"]
                  /\ slots' = [slots EXCEPT ![p] = e.slots]
                  /\ UNCHANGED <<tools, registeredTools, outcome, lastLog, mainPc, listed,
                                 discovered>>
    /\ UNCHANGED <<started, base, overlap, audit, preClear, fetchVars, invokeVars>>

\* fetchIPFSMetadata of entry i of pass p resolves to metadata: the entry's
\* object is overlaid and stored in the cache; when it was the last one
\* outstanding, Promise.all resolves and the pass runs to its end.
FetchDone(p, i, metadata) ==
    /\ mainPc # "exited"
    /\ pc[p] = "enriching"
    /\ i \in DOMAIN slots[p]
    /\ IsPending(slots[p][i])
    /\ LET skill == OverlayMetadata(slots[p][i].skill, metadata)
           ss == [slots[p] EXCEPT ![i] = [st |-> "resolved", skill |-> skill, raw |-> @.raw]]
       IN /\ metadataCache' = CacheSet(metadataCache, CacheKey(skill.skillId), skill)
          /\ IF AllResolved(ss)
             THEN /\ \E failAt \in 0..Len(ActiveSkills(ss)) :
                         Complete(p, ActiveSkills(ss), failAt, "ok")
                  /\ listed' = IF audit THEN Listed(p, ss, ActiveSkills(ss)) ELSE listed
             ELSE /\ slots' = [slots EXCEPT ![p] = ss]
                  /\ UNCHANGED <<pc, tools, registeredTools, outcome, lastLog, mainPc,
                                 listed, discovered>>
    /\ UNCHANGED <<started, base, overlap, lastRead, audit, issued, preClear,
                   sinceClear, fetchVars, invokeVars>>

Next ==
    \/ InitialSync
    \/ Tick
    \/ \E p \in Passes : ReadFail(p)
    \/ \E p \in Passes, rawSkills \in RegistryReads : ReadOk(p, rawSkills)
    \/ \E p \in Passes, i \in 1..MaxSkills, metadata \in MetadataResults : FetchDone(p, i, metadata)

Spec == Init /\ [][Next]_vars

\* ------------------------------- a ledger whose metadata pointer changes
\* The passes over a registry in which the metadata pointer of skill 1 is set,
\* changed or emptied between reads (a document on IPFS is updated by storing
\* a new document and pointing the ledger at it), with the audit history kept.
RepointedRaw ==
    {[skillId |-> 1, metadataURI |-> u, isActive |-> a] :
        u \in {"", LedgerURI[1]}, a \in BOOLEAN}
RepointedReads == UNION {[1..n -> RepointedRaw] : n \in 0..MaxSkills}

InitAudit ==
    /\ SyncInit
    /\ audit = TRUE
    /\ apiUrl = ""
    /\ handlerSkill = NewSkill([skillId |-> 1, metadataURI |-> "", isActive |-> TRUE], 0)
    /\ posted = NoRequest
    /\ backend = NotCalled
    /\ result = NoResult
    /\ transport = "null"
    /\ served = "none"

NextRepoint ==
    \/ InitialSync
    \/ Tick
    \/ \E p \in Passes : ReadFail(p)
    \/ \E p \in Passes, rawSkills \in RepointedReads : ReadOk(p, rawSkills)
    \/ \E p \in Passes, i \in 1..MaxSkills, metadata \in MetadataResults : FetchDone(p, i, metadata)

SpecRepoint == InitAudit /\ [][NextRepoint]_vars

\* ------------------------------------------------- one listSkills call
\* The listSkills call of the initial pass alone, over registry reads of up to
\* ListLen records of either skill, with the audit history kept.
ListReads == UNION {[1..n -> RawSkill \cup RepointedRaw] : n \in 0..ListLen}

NextList ==
    \/ InitialSync
    \/ ReadFail(1)
    \/ \E rawSkills \in ListReads : ReadOk(1, rawSkills)
    \/ \E i \in 1..ListLen, metadata \in MetadataResults : FetchDone(1, i, metadata)

SpecList == InitAudit /\ [][NextList]_vars

\* ------------------------------------------------ the handler, alone
\* A handler closed over any skill a pass can bind, under any configuration of
\* the backend URL.
InitInvoke ==
    /\ SyncInit
    /\ audit = FALSE
    /\ apiUrl \in ApiUrls
    /\ handlerSkill \in BindableSkills
    /\ posted = NoRequest
    /\ backend = NotCalled
    /\ result = NoResult
    /\ transport = "null"
    /\ served = "none"

\* The agent calls the tool with input and axios.post settles as settled.
Invoke(input, settled) ==
    /\ posted' = Request(handlerSkill, apiUrl, input)
    /\ backend' = settled
    /\ result' = HandlerResult(handlerSkill, apiUrl, settled)
    /\ UNCHANGED <<apiUrl, handlerSkill, transport, served, syncVars, auditVars, fetchVars>>

NextInvoke == \E input \in Inputs, settled \in BackendOutcomes : Invoke(input, settled)

SpecInvoke == InitInvoke /\ [][NextInvoke]_vars

\* ------------------------------------------------------- the HTTP server
\* The initial pass together with the requests the express app answers.
\* app.get("/sse"): a transport is created and connected to the server
GetSse ==
    /\ Listening(mainPc)
    /\ transport' = "sse"
    /\ served' = "sse"
    /\ UNCHANGED <<apiUrl, handlerSkill, posted, backend, result, syncVars, auditVars,
                   fetchVars>>

\* app.post("/message") with no transport: status 400
PostWithoutTransport ==
    /\ Listening(mainPc)
    /\ transport = "null"
    /\ served' = "400"
    /\ UNCHANGED <<apiUrl, handlerSkill, posted, backend, result, transport, syncVars,
                   auditVars, fetchVars>>

\* app.post("/message") carrying a call of tool t: transport.handlePostMessage
\* hands it to the server, which runs the handler bound to t
CallTool(t, input, settled) ==
    /\ Listening(mainPc)
    /\ transport = "sse"
    /\ t \in DOMAIN tools
    /\ served' = "tool"
    /\ handlerSkill' = tools[t].skill
    /\ posted' = Request(tools[t].skill, apiUrl, input)
    /\ backend' = settled
    /\ result' = HandlerResult(tools[t].skill, apiUrl, settled)
    /\ UNCHANGED <<apiUrl, transport, syncVars, auditVars, fetchVars>>

NextServe ==
    \/ InitialSync
    \/ ReadFail(1)
    \/ \E rawSkills \in RegistryReads : ReadOk(1, rawSkills)
    \/ \E i \in 1..MaxSkills, metadata \in MetadataResults : FetchDone(1, i, metadata)
    \/ GetSse
    \/ PostWithoutTransport
    \/ \E t \in DOMAIN tools, input \in Inputs, settled \in BackendOutcomes :
           CallTool(t, input, settled)

SpecServe == Init /\ [][NextServe]_vars

\* --------------------------------------------- one fetchIPFSMetadata call
\* One call of fetchIPFSMetadata followed callback by callback: the gateways
\* answer with headers (ok or not), reject, deliver a body or fail to, or stay
\* silent; the abort timer of an attempt fires while it is armed.
CallFetch ==
    /\ fpc = "idle"
    /\ fpc' = "headers"
    /\ gateway' = 1
    /\ abortTimer' = "armed"
    /\ contacted' = <<GATEWAYS[1]>>
    /\ UNCHANGED <<attempts, fetched, syncVars, auditVars, invokeVars>>

\* The current attempt ends without a result: the next url is requested with a
\* new controller and timer, or, after the last url, the call returns null.
AttemptFails(how, timer) ==
    /\ attempts' = Append(attempts, how)
    /\ IF CatchAttempt(how) = "continue" /\ gateway < Len(GATEWAYS)
       THEN /\ gateway' = gateway + 1
            /\ contacted' = Append(contacted, GATEWAYS[gateway + 1])
            /\ abortTimer' = "armed"
            /\ fpc' = "headers"
            /\ UNCHANGED fetched
       ELSE /\ fpc' = "returned"
            /\ fetched' = Returns(NullMetadata)
            /\ abortTimer' = timer
            /\ UNCHANGED <<gateway, contacted>>
    /\ UNCHANGED <<syncVars, auditVars, invokeVars>>

\* await fetch(url, { signal }) rejects with a network error
FetchRejects ==
    /\ fpc = "headers"
    /\ AttemptFails("networkError", abortTimer)

\* setTimeout(() => controller.abort(), 2000) fires: what is awaited under the
\* signal rejects with an AbortError
TimerFires ==
    /\ fpc \in {"headers", "body"}
    /\ abortTimer = "armed"
    /\ AttemptFails("timeout", "fired")

\* await fetch(...) resolves with the response headers: clearTimeout(timeoutId),
\* then if (response.ok) await response.text(), else the status is logged
HeadersArrive(ok) ==
    /\ fpc = "headers"
    /\ IF ok
       THEN /\ fpc' = "body"
            /\ abortTimer' = "cleared"
            /\ UNCHANGED <<gateway, contacted, attempts, fetched, syncVars, auditVars,
                           invokeVars>>
       ELSE AttemptFails("status", "cleared")

\* await response.text() resolves: JSON.parse, return json
BodyArrives(text) ==
    /\ fpc = "body"
    /\ IF JSONParse(text).threw
       THEN AttemptFails("parseError", abortTimer)
       ELSE /\ attempts' = Append(attempts, "success")
            /\ fpc' = "returned"
            /\ fetched' = Returns(JSONParse(text).value)
            /\ UNCHANGED <<gateway, contacted, abortTimer, syncVars, auditVars,
                           invokeVars>>

\* await response.text() rejects (the connection breaks while the body is read)
BodyFails ==
    /\ fpc = "body"
    /\ AttemptFails("bodyError", abortTimer)

NextFetch ==
    \/ CallFetch
    \/ FetchRejects
    \/ TimerFires
    \/ \E ok \in BOOLEAN : HeadersArrive(ok)
    \/ \E text \in Bodies : BodyArrives(text)
    \/ BodyFails

SpecFetch == Init /\ [][NextFetch]_vars

TypeOK ==
    /\ mainPc \in {"start", "initialSync", "serving", "exited"}
    /\ started \in 0..MaxPasses
    /\ \A p \in Passes : pc[p] \in {"idle", "reading", "enriching", "done"}
    /\ \A p \in Passes : outcome[p] \in {"none", "resolved", "rejected"}
    /\ registeredTools = DOMAIN tools
    /\ result.kind \in {"none", "result", "throws"}
    /\ audit \in BOOLEAN
    /\ transport \in {"null", "sse"}
    /\ served \in {"none", "sse", "400", "tool"}
    /\ fpc \in {"idle", "headers", "body", "returned"}
    /\ gateway \in 0..Len(GATEWAYS)
    /\ abortTimer \in {"none", "armed", "cleared", "fired"}
    /\ fetched.kind \in {"none", "returns"}
    /\ \A p \in Passes : issued[p] \subseteq 1..ListLen

\* ================================================================ claims
Quiescent == InFlight = {}

\* A step in which pass p runs to its end
Completes(p) == pc[p] # "done" /\ pc'[p] = "done"

\* C1: at most one sync pass is in flight at any time; a timer tick that finds
\* a pass still awaiting the registry read or a metadata fetch starts no second
\* pass beside it.
C1_SinglePassInFlight == Cardinality(InFlight) <= 1

C3_KnownNeverShrinks == [][registeredTools \subseteq registeredTools']_vars

C3_Witness ==
    /\ Cardinality(registeredTools) = 2
    /\ overlap
    /\ Quiescent
    /\ lastLog = "readFailed"

\* C4: the registry-read generation of the record bound to a tool identifier
\* never goes backwards.
C4_GenerationNeverGoesBack ==
    [][\A t \in DOMAIN tools : tools'[t].skill.gen >= tools[t].skill.gen]_vars

\* C5: every binding a pass makes is to a record built from that pass's own
\* registry read.
C5_BoundToOwnRead ==
    [][\A p \in Passes : Completes(p) =>
          \A t \in DOMAIN tools' :
              (t \notin DOMAIN tools \/ tools'[t] # tools[t]) => tools'[t].skill.gen = p]_vars

\* C6: a pass registers a tool only for records whose isActive flag is true in
\* the pass's own registry read.
C6_OnlyRecordsReadActive == \A t \in DOMAIN tools : tools[t].rawActive

\* C7: a pass whose registry read fails changes no tool registration: the
\* bindings and the known-identifier set are the same after it as before it.
C7_ReadFailureChangesNothing ==
    [][(lastLog' = "readFailed" /\ \E p \in Passes : Completes(p))
          => (tools' = tools /\ registeredTools' = registeredTools)]_vars

C7_Witness ==
    /\ lastLog = "readFailed"
    /\ tools # EmptyMap
    /\ Quiescent

\* C8: no failure inside a pass rejects the promise of syncSkills or ends the
\* process; once the initial pass is over the timer is armed, and it stays able
\* to start the next pass.
C8_SyncNeverFatal ==
    /\ mainPc # "exited"
    /\ \A p \in Passes : outcome[p] # "rejected"
    /\ pc[1] = "done" => mainPc = "serving"
    /\ (pc[1] = "done" /\ started < MaxPasses) => ENABLED Tick

C8_Witness ==
    /\ lastLog = "registerThrew"
    /\ pc[1] = "done"
    /\ started = 2
    /\ pc[2] = "reading"

\* C9: the handler never lets an exception escape: whatever axios.post does, it
\* resolves to a result with a text entry, flagged isError exactly when the
\* backend call failed.
C9_HandlerNeverThrows ==
    result.kind # "none" =>
        /\ result.kind = "result"
        /\ result.isError <=> ~backend.ok

\* The message the classification of C10 assigns to a thrown value
ClaimedMessage(error, url) ==
    IF error.code = "ECONNREFUSED"
    THEN [form |-> "unreachable", arg |-> UnreachableUrl(url)]
    ELSE IF error.bodyError.kind = "string"
    THEN [form |-> "plain", arg |-> error.bodyError.value]
    ELSE IF error.type \in {"Error", "string"}
    THEN [form |-> "plain", arg |-> error.message]
    ELSE [form |-> "plain", arg |-> error.json.value]

\* C10: on a failed backend call the result is flagged isError and carries the
\* message of the classification: backend unreachable (naming the configured
\* URL) for a refused connection, else the string of a structured {error} body,
\* else the error's message or its stringified form.
C10_ErrorClassification ==
    (result.kind # "none" /\ ~backend.ok) =>
        /\ result.kind = "result"
        /\ result.isError
        /\ result.message = ClaimedMessage(backend.error, apiUrl)

\* The enrichSkillWithMetadata calls of the listSkills call that resolved last
\* and of the calls still awaiting fetches: slot, and whether it fetched
EnrichCalls ==
    {[slot |-> listed.enriched[i], fetched |-> i \in issued[listed.pass]] :
        i \in DOMAIN listed.enriched}
    \cup UNION {{[slot |-> slots[p][i], fetched |-> i \in issued[p]] :
                    i \in DOMAIN slots[p]} : p \in Passes}

\* C11: the enrichment of a record whose metadata pointer is empty yields the
\* name "Skill #<skillId>" and no tags and calls no metadata fetch, whatever
\* earlier or concurrent enrichments of the same skillId did.
C11_EmptyPointerDefaults ==
    \A c \in EnrichCalls :
        c.slot.raw.metadataURI = ""
            => /\ c.slot.skill.name = DefaultName(c.slot.raw.skillId)
               /\ c.slot.skill.tags = NoTags
               /\ ~c.fetched

\* C12: the value listSkills returns is exactly the enriched records of that
\* call whose isActive is true, in the order of the registry read, whatever the
\* order in which the concurrent enrichments completed: the k-th entry returned
\* is the k-th active enriched record, and entry i of the enriched records
\* belongs to record i of the read.
ActiveIndices == {i \in DOMAIN listed.enriched : listed.enriched[i].skill.isActive}
RankAmongActive(i) == Cardinality({j \in ActiveIndices : j <= i})
C12_ActiveViewInOrder ==
    /\ Len(listed.view) = Cardinality(ActiveIndices)
    /\ \A i \in ActiveIndices : listed.view[RankAmongActive(i)] = listed.enriched[i]
    /\ \A i \in DOMAIN listed.enriched :
           listed.enriched[i].skill.skillId = listed.enriched[i].raw.skillId

\* A read of three records, active, inactive, active, whose first and third
\* enrichments both fetched, has resolved to a view of two entries.
C12_Witness ==
    /\ Len(listed.enriched) = 3
    /\ [i \in 1..3 |-> listed.enriched[i].skill.isActive] = <<TRUE, FALSE, TRUE>>
    /\ {1, 3} \subseteq issued[listed.pass]
    /\ Len(listed.view) = 2

\* The attempts that ended without a result
FailedAttempts == {"networkError", "timeout", "status", "bodyError", "parseError"}
AllAttemptsFailed ==
    /\ Len(attempts) = Len(GATEWAYS)
    /\ \A g \in DOMAIN attempts : attempts[g] \in FailedAttempts
\* The gateways are tried in list order; once one has answered with valid JSON
\* the call has returned its parsed body and no later gateway is contacted.
InListOrderFirstSuccess ==
    /\ contacted = SubSeq(GATEWAYS, 1, Len(contacted))
    /\ Len(attempts) \in {Len(contacted) - 1, Len(contacted)}
    /\ \A g \in DOMAIN attempts :
           attempts[g] = "success"
               => /\ g = Len(contacted)
                  /\ fpc = "returned"
                  /\ \E text \in Bodies :
                         ~JSONParse(text).threw /\ fetched = Returns(JSONParse(text).value)
    /\ fpc = "returned" => Len(attempts) = Len(contacted)
    /\ fetched.kind # "throws"

\* C13 (as claimed): the metadata fetcher tries the gateways in list order,
\* returns the parsed body of the first gateway that answers with valid JSON and
\* contacts none after it, never throws, and returns null exactly when every
\* gateway attempt failed.
C13_NullExactlyWhenAllFailed ==
    /\ InListOrderFirstSuccess
    /\ fpc = "returned" => (fetched = Returns(NullMetadata) <=> AllAttemptsFailed)

\* C13 (amended): as above, but the call returns null exactly when every
\* gateway attempt failed or the first valid JSON body is the JSON value null.
C13_NullWhenAllFailedOrNullBody ==
    /\ InListOrderFirstSuccess
    /\ fpc = "returned"
           => (fetched = Returns(NullMetadata)
                  <=> \/ AllAttemptsFailed
                      \/ attempts[Len(attempts)] = "success"
                           /\ fetched.value = JSONParse("null").value)
    /\ AllAttemptsFailed => fpc = "returned"

\* Gateway 1 timed out, gateway 2 answered with a document, which was returned
\* without a request to gateway 3.
C13_Witness ==
    /\ attempts = <<"timeout", "success">>
    /\ fetched = Returns(JSONParse(DocumentText).value)
    /\ contacted = SubSeq(GATEWAYS, 1, 2)

\* The enrichSkillWithMetadata calls the listSkills call of pass p has made:
\* those awaiting fetches, or those of the call that resolved last
EnrichedOf(p) ==
    IF pc[p] = "enriching" THEN slots[p]
    ELSE IF listed.pass = p THEN listed.enriched
    ELSE <<>>
FirstIndexOf(ss, id) ==
    CHOOSE i \in DOMAIN ss :
        ss[i].raw.skillId = id /\ \A j \in 1..(i - 1) : ss[j].raw.skillId # id

\* C14: after clearCache(), the next enrichSkillWithMetadata call for a skillId
\* that was in the cache before the clear, made with a non-empty metadata
\* pointer, calls fetchIPFSMetadata (once: a call fetches at most once).
C14_RefetchAfterClear ==
    [][\A p \in Passes, id \in SkillIds :
          (/\ pc[p] = "reading" /\ pc'[p] # "reading"
           /\ CacheKey(id) \in preClear \ sinceClear
           /\ CacheKey(id) \in sinceClear'
           /\ EnrichedOf(p)'[FirstIndexOf(EnrichedOf(p)', id)].raw.metadataURI # "")
              => FirstIndexOf(EnrichedOf(p)', id) \in issued'[p]]_vars

\* C15: an entry of the enrichment cache is never replaced by a different
\* record and never removed except by a clearCache() (the start of a pass),
\* whatever the interleaving of the enrichments.
C15_EntryNeverReplaced ==
    [][started' = started
          => \A k \in DOMAIN metadataCache :
                 k \in DOMAIN metadataCache' /\ metadataCache'[k] = metadataCache[k]]_vars

\* C16: no streaming connection is accepted and no request or tool invocation
\* is answered in a state in which the initial pass has not run to its end.
C16_FirstPassBeforeServing ==
    (transport # "null" \/ served # "none") => pc[1] = "done"

\* A tool registered by the initial pass has been invoked over a connection.
C16_Witness ==
    /\ served = "tool"
    /\ transport = "sse"
    /\ result.kind = "result"
    /\ pc[1] = "done"

\* Call i of the enrichments ss finds its key in the cache: it was in cache
\* when listSkills started them, or an earlier call of ss stored it at once
StoredAtOnce(ss, i) ==
    {j \in 1..(i - 1) :
        ss[j].raw.skillId = ss[i].raw.skillId /\ ss[j].raw.metadataURI = ""}
IsHit(ss, i, cache) ==
    CacheKey(ss[i].raw.skillId) \in DOMAIN cache \/ StoredAtOnce(ss, i) # {}
MemoizedFor(ss, i, cache) ==
    IF CacheKey(ss[i].raw.skillId) \in DOMAIN cache
    THEN cache[CacheKey(ss[i].raw.skillId)]
    ELSE ss[CHOOSE j \in StoredAtOnce(ss, i) : \A k \in StoredAtOnce(ss, i) : j <= k].skill

\* C17: an enrichSkillWithMetadata call whose skillId is in the cache returns the
\* memoized object and calls no metadata fetch, whatever registry fields
\* (isActive, metadata pointer, ...) the record passed in carries.
C17_HitReturnsMemoized ==
    [][\A p \in Passes :
          (pc[p] = "reading" /\ pc'[p] # "reading")
              => \A i \in DOMAIN EnrichedOf(p)' :
                     IsHit(EnrichedOf(p)', i, metadataCache)
                         => /\ EnrichedOf(p)'[i].skill
                                = MemoizedFor(EnrichedOf(p)', i, metadataCache)
                            /\ i \notin issued'[p]]_vars

\* A listSkills call has resolved in which a record with a metadata pointer was
\* enriched without a fetch, to an object whose active flag and name are not
\* those of the record passed in.
C17_Witness ==
    \E i \in DOMAIN listed.enriched :
        /\ listed.enriched[i].raw.metadataURI # ""
        /\ i \notin issued[listed.pass]
        /\ listed.enriched[i].raw.isActive # listed.enriched[i].skill.isActive

\* C18: every attempt of the metadata fetcher is bounded by its timeout for the
\* whole attempt: whenever the call is waiting for a gateway, for the response
\* headers or for the response body, the abort timer of the attempt is armed,
\* so that a gateway that falls silent cannot keep the call from returning.
C18_AttemptBoundedThroughout ==
    fpc \in {"headers", "body"} => abortTimer = "armed"

\* The tool identifiers of the records listSkills returned to the pass that
\* completed last
ViewNames == {toolName(listed.view[k].skill.name) : k \in DOMAIN listed.view}

\* C19: a tool is never unregistered, and the handler bound to an identifier
\* changes only in a step in which a pass completes whose active view holds a
\* record for that identifier: a pass in which the skill is inactive or absent,
\* or whose read failed, leaves the identifier bound as it was.
C19_NeverUnregistered ==
    [][\A t \in DOMAIN tools :
          /\ t \in DOMAIN tools'
          /\ (tools'[t] # tools[t]
                  => \E p \in Passes : Completes(p) /\ t \in ViewNames')]_vars

\* A pass that read the skill as inactive has completed after the pass that
\* registered the tool, and the tool is still there.
C19_Witness ==
    \E t \in DOMAIN tools :
        /\ listed.pass > tools[t].skill.gen
        /\ pc[listed.pass] = "done"
        /\ Len(listed.enriched) > 0
        /\ listed.view = <<>>
        /\ Quiescent

\* The identifier derived for entry k of the view of the pass completed last
ViewName(k) == toolName(listed.view[k].skill.name)
LastWithName(t) ==
    CHOOSE k \in DOMAIN listed.view :
        ViewName(k) = t /\ \A m \in DOMAIN listed.view : ViewName(m) = t => m <= k

\* C20: when two active records of one pass derive the same tool identifier,
\* after the pass the identifier is bound to the later of them in registry
\* order, is in the known set, and was logged as newly discovered at most once.
C20_CollisionBindsLater ==
    pc[1] = "done"
        => \A i, j \in DOMAIN listed.view :
               (i < j /\ ViewName(i) = ViewName(j))
                   => /\ ViewName(i) \in DOMAIN tools
                      /\ tools[ViewName(i)].skill = listed.view[LastWithName(ViewName(i))].skill
                      /\ ViewName(i) \in registeredTools
                      /\ Cardinality({k \in DOMAIN discovered :
                                         discovered[k] = ViewName(i)}) <= 1
====
